---- MODULE Spec2Model ----
(***************************************************************************)
(* Model of vision_agent/lmm/lmm.py: the two LMM clients (LLaVALMM,        *)
(* OpenAILMM), the tool-selector factories and the get_lmm factory.        *)
(*                                                                         *)
(* Text that the code inspects character by character (file paths, data    *)
(* URIs) is a sequence of one-character strings.  Text that the code only  *)
(* passes along (prompts, model names, message contents) is a TLA+ string. *)
(* A model response handed to json.loads is a sequence of lexemes.         *)
(* Every operation yields a record [events, outcome]: the ordered          *)
(* externally visible effects (file reads, log records, network requests,  *)
(* tool invocations) and the value returned or the exception raised.       *)
(***************************************************************************)
EXTENDS Integers, Sequences, FiniteSets, TLC

VARIABLES
    lmm,        \* the client object the caller holds, NoClient before any construction
    origin,     \* how lmm was constructed (history variable)
    closures,   \* the closures the caller keeps, in creation order
    last        \* the most recent operation: its arguments, events and outcome

vars == <<lmm, origin, closures, last>>

(***************************************************************************)
(* Bounds of the model.                                                    *)
(***************************************************************************)
MaxClosures == 1
MaxChat == 2

(***************************************************************************)
(* Outcomes and events.                                                    *)
(***************************************************************************)
Return(v) == [kind |-> "return", value |-> v]

Raise(exc, msg) == [kind |-> "raise", exc |-> exc, msg |-> msg]

Result(events, outcome) == [events |-> events, outcome |-> outcome]

(***************************************************************************)
(* str.lower() on the characters a path may hold.                          *)
(***************************************************************************)
UpperAlpha == <<"A","B","C","D","E","F","G","H","I","J","K","L","M",
                "N","O","P","Q","R","S","T","U","V","W","X","Y","Z">>

LowerAlpha == <<"a","b","c","d","e","f","g","h","i","j","k","l","m",
                "n","o","p","q","r","s","t","u","v","w","x","y","z">>

LowerChar(c) ==
    IF \E i \in 1..Len(UpperAlpha) : UpperAlpha[i] = c
    THEN LowerAlpha[CHOOSE i \in 1..Len(UpperAlpha) : UpperAlpha[i] = c]
    ELSE c

Lower(s) == [i \in 1..Len(s) |-> LowerChar(s[i])]

(***************************************************************************)
(* pathlib: Path(p).name and Path(p).suffix.                               *)
(***************************************************************************)
RECURSIVE StripTrailingSep(_)
StripTrailingSep(p) ==
    IF Len(p) > 1 /\ p[Len(p)] = "/" THEN StripTrailingSep(SubSeq(p, 1, Len(p) - 1))
    ELSE p

\* position of the last occurrence of c in s, 0 when there is none
RFind(s, c) ==
    IF \E i \in 1..Len(s) : s[i] = c
    THEN CHOOSE i \in 1..Len(s) : s[i] = c /\ \A j \in (i + 1)..Len(s) : s[j] # c
    ELSE 0

PathName(p) ==
    LET q == StripTrailingSep(p)
        k == RFind(q, "/")
        n == SubSeq(q, k + 1, Len(q))
    IN  IF n = <<".">> THEN <<>> ELSE n

PathSuffix(p) ==
    LET name == PathName(p)
        i == RFind(name, ".")
    IN  IF 1 < i /\ i < Len(name) THEN SubSeq(name, i, Len(name)) ELSE <<>>

(***************************************************************************)
(* The file system: the readable files and their bytes.                    *)
(***************************************************************************)
P_jpg == <<"a",".","j","p","g">>
P_JPG == <<"a",".","J","P","G">>
P_Jpeg == <<"b","/","c",".","J","p","e","g">>
P_png == <<"a",".","p","n","g">>
P_PNG == <<"a",".","P","N","G">>
P_gif == <<"a",".","g","i","f">>
P_noext == <<"d",".","x","/","a">>
P_hidden == <<".","p","n","g">>
P_missing == <<"m",".","j","p","e","g">>
P_empty == <<>>

Paths == {P_jpg, P_JPG, P_Jpeg, P_png, P_PNG, P_gif, P_noext, P_hidden, P_missing, P_empty}

\* P_hidden and P_missing name no file
Files ==
    (P_jpg :> <<255, 216, 255, 224>>) @@ (P_JPG :> <<255, 216>>) @@
    (P_Jpeg :> <<255>>) @@ (P_png :> <<137, 80, 78>>) @@ (P_PNG :> <<137, 80, 78, 71, 13>>) @@
    (P_gif :> <<71, 73, 70>>) @@ (P_noext :> <<>>)

(***************************************************************************)
(* base64.b64encode(...).decode("utf-8")                                   *)
(***************************************************************************)
B64Alphabet ==
    UpperAlpha \o LowerAlpha \o <<"0","1","2","3","4","5","6","7","8","9","+","/">>

RECURSIVE B64Encode(_)
B64Encode(b) ==
    IF Len(b) = 0 THEN <<>>
    ELSE LET b1 == b[1]
             b2 == IF Len(b) >= 2 THEN b[2] ELSE 0
             b3 == IF Len(b) >= 3 THEN b[3] ELSE 0
             c1 == B64Alphabet[(b1 \div 4) + 1]
             c2 == B64Alphabet[((b1 % 4) * 16 + (b2 \div 16)) + 1]
             c3 == IF Len(b) >= 2 THEN B64Alphabet[((b2 % 16) * 4 + (b3 \div 64)) + 1] ELSE "="
             c4 == IF Len(b) >= 3 THEN B64Alphabet[(b3 % 64) + 1] ELSE "="
         IN  <<c1, c2, c3, c4>> \o
             (IF Len(b) > 3 THEN B64Encode(SubSeq(b, 4, Len(b))) ELSE <<>>)

\* encode_image: the read is an event; a missing file raises from open()
encode_image(image) ==
    IF image \in DOMAIN Files
    THEN Result(<<[ev |-> "open", path |-> image]>>, Return(B64Encode(Files[image])))
    ELSE Result(<<[ev |-> "open", path |-> image]>>,
                Raise("FileNotFoundError", <<"No such file or directory: ", image>>))

(***************************************************************************)
(* Optional[Union[str, Path]]: None or a path; `if image:` is truthiness.  *)
(***************************************************************************)
None == [none |-> TRUE, path |-> <<>>]

Some(p) == [none |-> FALSE, path |-> p]

Images == {None} \cup {Some(p) : p \in Paths}

Truthy(image) == ~image.none /\ image.path # <<>>

(***************************************************************************)
(* Client objects.                                                         *)
(***************************************************************************)
DEFAULT_MODEL_NAME == "gpt-4-vision-preview"

DEFAULT_MAX_TOKENS == 1024

DEFAULT_TEMPERATURE == "0.1"

DEFAULT_MAX_NEW_TOKENS == 1500

LLAVA_ENDPOINT == "https://svtswgdnleslqcsjvilau4p6u40jwrkn.lambda-url.us-east-2.on.aws"

\* LLaVALMM.__init__
LLaVALMM(model_name) == [cls |-> "LLaVALMM", model_name |-> model_name]

\* OpenAILMM.__init__ ; kwargs is a mapping from option names to values
OpenAILMM(model_name, max_tokens, kwargs) ==
    [cls |-> "OpenAILMM", model_name |-> model_name, max_tokens |-> max_tokens,
     kwargs |-> kwargs]

(***************************************************************************)
(* LLaVALMM                                                                *)
(***************************************************************************)
\* the JSON documents the hosted endpoint may answer with
LlavaResponses ==
    { ("statusCode" :> 200) @@ ("data" :> "X"),
      ("statusCode" :> 200) @@ ("data" :> "Y"),
      ("statusCode" :> 500) @@ ("data" :> "X"),
      ("statusCode" :> 500) @@ ("message" :> "boom"),
      ("data" :> "X"),
      ("statusCode" :> 200) @@ ("message" :> "boom") }

LLaVALMM_chat(self, chat, image) ==
    Result(<<>>, Raise("NotImplementedError", <<"Chat not supported for LLaVA">>))

\* faulty variant: a response without statusCode is taken for a success
LLaVALMM_generate_missing_ok(self, prompt, image, resp_json) ==
    LET enc == IF Truthy(image) THEN encode_image(image.path)
               ELSE Result(<<>>, Return(<<>>))
    IN  IF enc.outcome.kind = "raise" THEN enc
        ELSE
        LET data == (IF Truthy(image) THEN ("image" :> enc.outcome.value) ELSE <<>>) @@
                    ("prompt" :> prompt) @@
                    ("temperature" :> DEFAULT_TEMPERATURE) @@
                    ("max_new_tokens" :> DEFAULT_MAX_NEW_TOKENS)
            post == [ev |-> "post", url |-> LLAVA_ENDPOINT,
                     headers |-> ("Content-Type" :> "application/json"),
                     json |-> data]
            sent == enc.events \o <<post>>
        IN  IF "statusCode" \in DOMAIN resp_json /\ resp_json["statusCode"] # 200
            THEN Result(sent \o <<[ev |-> "log", level |-> "error",
                                   msg |-> <<"Request failed: ", resp_json>>]>>,
                        Raise("ValueError", <<"Request failed: ", resp_json>>))
            ELSE IF "data" \in DOMAIN resp_json
                 THEN Result(sent, Return(resp_json["data"]))
                 ELSE Result(sent, Raise("KeyError", <<"data">>))

LLaVALMM_generate(self, prompt, image, resp_json) ==
    LET enc == IF Truthy(image) THEN encode_image(image.path)
               ELSE Result(<<>>, Return(<<>>))
    IN  IF enc.outcome.kind = "raise" THEN enc
        ELSE
        LET data == (IF Truthy(image) THEN ("image" :> enc.outcome.value) ELSE <<>>) @@
                    ("prompt" :> prompt) @@
                    ("temperature" :> DEFAULT_TEMPERATURE) @@
                    ("max_new_tokens" :> DEFAULT_MAX_NEW_TOKENS)
            post == [ev |-> "post", url |-> LLAVA_ENDPOINT,
                     headers |-> ("Content-Type" :> "application/json"),
                     json |-> data]
            sent == enc.events \o <<post>>
        IN  IF \/ ("statusCode" \in DOMAIN resp_json /\ resp_json["statusCode"] # 200)
               \/ "statusCode" \notin DOMAIN resp_json
            THEN Result(sent \o <<[ev |-> "log", level |-> "error",
                                   msg |-> <<"Request failed: ", resp_json>>]>>,
                        Raise("ValueError", <<"Request failed: ", resp_json>>))
            ELSE IF "data" \in DOMAIN resp_json
                 THEN Result(sent, Return(resp_json["data"]))
                 ELSE Result(sent, Raise("KeyError", <<"data">>))

\* input is [t |-> "str", s |-> text] or [t |-> "list", l |-> messages]
LLaVALMM_call(self, input, image, resp_json) ==
    IF input.t = "str" THEN LLaVALMM_generate(self, input.s, image, resp_json)
    ELSE LLaVALMM_chat(self, input.l, image)

(***************************************************************************)
(* OpenAILMM.chat and OpenAILMM.generate                                   *)
(***************************************************************************)
Str_dot_jpeg == <<".","j","p","e","g">>
Str_dot_jpg == <<".","j","p","g">>
Str_dot_png == <<".","p","n","g">>
Str_jpg == <<"j","p","g">>
Str_png == <<"p","n","g">>
Str_data_image == <<"d","a","t","a",":","i","m","a","g","e","/">>
Str_base64 == <<";","b","a","s","e","6","4",",">>

\* f"data:image/{extension};base64,{encoded_image}"
DataUrl(extension, encoded_image) ==
    Str_data_image \o extension \o Str_base64 \o encoded_image

ImageBlock(extension, encoded_image) ==
    [type |-> "image_url",
     image_url |-> [url |-> DataUrl(extension, encoded_image), detail |-> "low"]]

TextBlock(text) == [type |-> "text", text |-> text]

\* self.client.chat.completions.create(model=..., messages=..., **opts)
CreateRequest(model, messages, opts) ==
    [ev |-> "request", model |-> model, messages |-> messages, opts |-> opts]

\* faulty variant: the suffix is lower-cased and stripped of its dot, jpeg stays jpeg
ChatExtension_keeps_jpeg(extension) ==
    IF Lower(extension) = Str_dot_jpeg \/ Lower(extension) = Str_dot_jpg
       \/ Lower(extension) = Str_dot_png
    THEN Return(SubSeq(Lower(extension), 2, Len(extension)))
    ELSE Raise("ValueError", <<"Unsupported image extension: ", extension>>)

\* faulty variant: an unknown suffix is passed through instead of rejected
ChatExtension_no_reject(extension) ==
    IF Lower(extension) = Str_dot_jpeg \/ Lower(extension) = Str_dot_jpg
    THEN Return(Str_jpg)
    ELSE IF Lower(extension) = Str_dot_png
         THEN Return(Str_png)
         ELSE Return(extension)

\* the extension branch of chat: the media tag, or the ValueError
ChatExtension(extension) ==
    IF Lower(extension) = Str_dot_jpeg \/ Lower(extension) = Str_dot_jpg
    THEN Return(Str_jpg)
    ELSE IF Lower(extension) = Str_dot_png
         THEN Return(Str_png)
         ELSE Raise("ValueError", <<"Unsupported image extension: ", extension>>)

\* faulty variant: the image block goes to the last message instead of the first
OpenAILMM_chat_image_last(self, chat, image, content) ==
    LET fixed_chat == [i \in 1..Len(chat) |->
                         [role |-> chat[i].role,
                          content |-> <<TextBlock(chat[i].content)>>]]
        opts == ("max_tokens" :> self.max_tokens) @@ self.kwargs
    IN  IF ~Truthy(image)
        THEN Result(<<CreateRequest(self.model_name, fixed_chat, opts)>>, Return(content))
        ELSE
        LET extension == ChatExtension(PathSuffix(image.path))
        IN  IF extension.kind = "raise" THEN Result(<<>>, extension)
            ELSE
            LET enc == encode_image(image.path)
            IN  IF enc.outcome.kind = "raise" THEN enc
                ELSE IF Len(fixed_chat) = 0
                THEN Result(enc.events, Raise("IndexError", <<"list index out of range">>))
                ELSE
                LET with_image ==
                        [fixed_chat EXCEPT ![Len(fixed_chat)].content =
                            Append(@, ImageBlock(extension.value, enc.outcome.value))]
                IN  Result(enc.events \o
                             <<CreateRequest(self.model_name, with_image, opts)>>,
                           Return(content))

OpenAILMM_chat(self, chat, image, content) ==
    LET fixed_chat == [i \in 1..Len(chat) |->
                         [role |-> chat[i].role,
                          content |-> <<TextBlock(chat[i].content)>>]]
        opts == ("max_tokens" :> self.max_tokens) @@ self.kwargs
    IN  IF ~Truthy(image)
        THEN Result(<<CreateRequest(self.model_name, fixed_chat, opts)>>, Return(content))
        ELSE
        LET extension == ChatExtension(PathSuffix(image.path))
        IN  IF extension.kind = "raise" THEN Result(<<>>, extension)
            ELSE
            LET enc == encode_image(image.path)
            IN  IF enc.outcome.kind = "raise" THEN enc
                ELSE IF Len(fixed_chat) = 0
                THEN Result(enc.events, Raise("IndexError", <<"list index out of range">>))
                ELSE
                LET with_image ==
                        [fixed_chat EXCEPT ![1].content =
                            Append(@, ImageBlock(extension.value, enc.outcome.value))]
                IN  Result(enc.events \o
                             <<CreateRequest(self.model_name, with_image, opts)>>,
                           Return(content))

\* faulty variant: generate validates and normalizes the suffix the way chat does
OpenAILMM_generate_normalizes(self, prompt, image, content) ==
    LET message == <<[role |-> "user", content |-> <<TextBlock(prompt)>>]>>
        opts == ("max_tokens" :> self.max_tokens) @@ self.kwargs
    IN  IF ~Truthy(image)
        THEN Result(<<CreateRequest(self.model_name, message, opts)>>, Return(content))
        ELSE
        LET extension == ChatExtension(PathSuffix(image.path))
            enc == encode_image(image.path)
        IN  IF extension.kind = "raise" THEN Result(<<>>, extension)
            ELSE IF enc.outcome.kind = "raise" THEN enc
            ELSE
            LET with_image ==
                    [message EXCEPT ![1].content =
                        Append(@, ImageBlock(extension.value, enc.outcome.value))]
            IN  Result(enc.events \o
                         <<CreateRequest(self.model_name, with_image, opts)>>,
                       Return(content))

OpenAILMM_generate(self, prompt, image, content) ==
    LET message == <<[role |-> "user", content |-> <<TextBlock(prompt)>>]>>
        opts == ("max_tokens" :> self.max_tokens) @@ self.kwargs
    IN  IF ~Truthy(image)
        THEN Result(<<CreateRequest(self.model_name, message, opts)>>, Return(content))
        ELSE
        LET extension == PathSuffix(image.path)
            enc == encode_image(image.path)
        IN  IF enc.outcome.kind = "raise" THEN enc
            ELSE
            LET with_image ==
                    [message EXCEPT ![1].content =
                        Append(@, ImageBlock(extension, enc.outcome.value))]
            IN  Result(enc.events \o
                         <<CreateRequest(self.model_name, with_image, opts)>>,
                       Return(content))

\* faulty variant: the unified call forgets to pass the image on to generate
OpenAILMM_call_drops_image(self, input, image, content) ==
    IF input.t = "str" THEN OpenAILMM_generate(self, input.s, None, content)
    ELSE OpenAILMM_chat(self, input.l, image, content)

OpenAILMM_call(self, input, image, content) ==
    IF input.t = "str" THEN OpenAILMM_generate(self, input.s, image, content)
    ELSE OpenAILMM_chat(self, input.l, image, content)

(***************************************************************************)
(* json.loads on a text given as its sequence of lexemes.  A lexeme is     *)
(* [k, v]: k is "punct" ({ } [ ] : ,), "str" (a quoted string, v its       *)
(* value), "num", "lit" (null, true, false) or "word" (anything else).     *)
(* A parsed value is [t |-> "obj", m |-> mapping], [t |-> "arr", a |-> _], *)
(* [t |-> "str", s |-> _], [t |-> "num", s |-> _] or [t |-> "lit", s |-> _]*)
(***************************************************************************)
Punct(c) == [k |-> "punct", v |-> c]

StrTok(s) == [k |-> "str", v |-> s]

NumTok(s) == [k |-> "num", v |-> s]

WordTok(s) == [k |-> "word", v |-> s]

ParseFail == [ok |-> FALSE]

ParseOk(val, next) == [ok |-> TRUE, val |-> val, next |-> next]

RECURSIVE ParseValue(_, _), ParseMembers(_, _, _), ParseElements(_, _, _)
ParseValue(toks, i) ==
    IF i > Len(toks) THEN ParseFail
    ELSE IF toks[i].k = "str" THEN ParseOk([t |-> "str", s |-> toks[i].v], i + 1)
    ELSE IF toks[i].k = "num" THEN ParseOk([t |-> "num", s |-> toks[i].v], i + 1)
    ELSE IF toks[i].k = "lit" THEN ParseOk([t |-> "lit", s |-> toks[i].v], i + 1)
    ELSE IF toks[i] = Punct("{")
         THEN IF i + 1 <= Len(toks) /\ toks[i + 1] = Punct("}")
              THEN ParseOk([t |-> "obj", m |-> <<>>], i + 2)
              ELSE ParseMembers(toks, i + 1, <<>>)
    ELSE IF toks[i] = Punct("[")
         THEN IF i + 1 <= Len(toks) /\ toks[i + 1] = Punct("]")
              THEN ParseOk([t |-> "arr", a |-> <<>>], i + 2)
              ELSE ParseElements(toks, i + 1, <<>>)
    ELSE ParseFail

\* "key" : value, then , or } ; a repeated key keeps its last value
ParseMembers(toks, i, m) ==
    IF i + 1 > Len(toks) \/ toks[i].k # "str" \/ toks[i + 1] # Punct(":")
    THEN ParseFail
    ELSE LET r == ParseValue(toks, i + 2)
         IN  IF ~r.ok THEN ParseFail
             ELSE IF r.next > Len(toks) THEN ParseFail
             ELSE LET m2 == (toks[i].v :> r.val) @@ m
                  IN  IF toks[r.next] = Punct("}")
                      THEN ParseOk([t |-> "obj", m |-> m2], r.next + 1)
                      ELSE IF toks[r.next] = Punct(",")
                           THEN ParseMembers(toks, r.next + 1, m2)
                           ELSE ParseFail

ParseElements(toks, i, a) ==
    LET r == ParseValue(toks, i)
    IN  IF ~r.ok THEN ParseFail
        ELSE IF r.next > Len(toks) THEN ParseFail
        ELSE IF toks[r.next] = Punct("]")
             THEN ParseOk([t |-> "arr", a |-> Append(a, r.val)], r.next + 1)
             ELSE IF toks[r.next] = Punct(",")
                  THEN ParseElements(toks, r.next + 1, Append(a, r.val))
                  ELSE ParseFail

\* json.loads: one value spanning the whole text, else JSONDecodeError
json_loads(text) ==
    LET r == ParseValue(text, 1)
    IN  IF r.ok /\ r.next = Len(text) + 1 THEN Return(r.val)
        ELSE Raise("JSONDecodeError", <<"Expecting value">>)

\* value[key] for a string key
Subscript(value, key) ==
    IF value.t = "obj"
    THEN IF key \in DOMAIN value.m THEN Return(value.m[key])
         ELSE Raise("KeyError", <<key>>)
    ELSE Raise("TypeError", <<"indices must be integers or not subscriptable">>)

(***************************************************************************)
(* The texts the remote chat-completion API may answer with.               *)
(***************************************************************************)
T_cat ==
    <<Punct("{"), StrTok("Parameters"), Punct(":"),
      Punct("{"), StrTok("prompt"), Punct(":"), StrTok("cat"), Punct("}"), Punct("}")>>

T_dog_extra ==
    <<Punct("{"), StrTok("Parameters"), Punct(":"),
      Punct("{"), StrTok("prompt"), Punct(":"), StrTok("dog"), Punct(","),
                  StrTok("box_threshold"), Punct(":"), NumTok("0.3"), Punct("}"),
      Punct(","), StrTok("Tool"), Punct(":"), StrTok("detector"), Punct("}")>>

T_no_prompt ==
    <<Punct("{"), StrTok("Parameters"), Punct(":"),
      Punct("{"), StrTok("image"), Punct(":"), StrTok("cat"), Punct("}"), Punct("}")>>

T_empty_params ==
    <<Punct("{"), StrTok("Parameters"), Punct(":"), Punct("{"), Punct("}"), Punct("}")>>

T_no_parameters ==
    <<Punct("{"), StrTok("prompt"), Punct(":"), StrTok("cat"), Punct("}")>>

T_prose == <<WordTok("Sure"), WordTok("here"), Punct(":"), StrTok("cat")>>

T_truncated ==
    <<Punct("{"), StrTok("Parameters"), Punct(":"),
      Punct("{"), StrTok("prompt"), Punct(":"), StrTok("cat"), Punct("}")>>

T_array == <<Punct("["), StrTok("Parameters"), Punct("]")>>

ResponseTexts ==
    {T_cat, T_dog_extra, T_no_prompt, T_empty_params, T_no_parameters,
     T_prose, T_truncated, T_array}

(***************************************************************************)
(* The tool-selector factories.  A closure is [tool, params].              *)
(***************************************************************************)
SelectorRequest(self, tool, question) ==
    CreateRequest(self.model_name,
                  <<[role |-> "system", content |-> <<"SYSTEM_PROMPT">>],
                    [role |-> "user",
                     content |-> <<"CHOOSE_PARAMS", tool, "description", "usage", question>>]>>,
                  <<>>)

\* the try block: json.loads(content)["Parameters"], except JSONDecodeError
SelectorParams(content) ==
    LET loaded == json_loads(content)
    IN  IF loaded.kind = "raise"
        THEN Result(<<[ev |-> "log", level |-> "error",
                       msg |-> <<"Failed to decode response: ", content>>]>>,
                    Raise("ValueError", <<"Failed to decode response">>))
        ELSE Result(<<>>, Subscript(loaded.value, "Parameters"))

generate_classifier(self, question, content) ==
    LET params == SelectorParams(content)
        sent == <<SelectorRequest(self, "CLIP", question)>> \o params.events
    IN  IF params.outcome.kind = "raise" THEN Result(sent, params.outcome)
        ELSE Result(sent, Return([tool |-> "CLIP", params |-> params.outcome.value]))

\* faulty variant: the detector factory binds the segmentor (a copy-paste slip)
generate_detector_wrong_tool(self, question, content) ==
    LET params == SelectorParams(content)
        sent == <<SelectorRequest(self, "GroundingDINO", question)>> \o params.events
    IN  IF params.outcome.kind = "raise" THEN Result(sent, params.outcome)
        ELSE Result(sent, Return([tool |-> "GroundingSAM", params |-> params.outcome.value]))

generate_detector(self, question, content) ==
    LET params == SelectorParams(content)
        sent == <<SelectorRequest(self, "GroundingDINO", question)>> \o params.events
    IN  IF params.outcome.kind = "raise" THEN Result(sent, params.outcome)
        ELSE Result(sent, Return([tool |-> "GroundingDINO", params |-> params.outcome.value]))

generate_segmentor(self, question, content) ==
    LET params == SelectorParams(content)
        sent == <<SelectorRequest(self, "GroundingSAM", question)>> \o params.events
    IN  IF params.outcome.kind = "raise" THEN Result(sent, params.outcome)
        ELSE Result(sent, Return([tool |-> "GroundingSAM", params |-> params.outcome.value]))

\* lambda x: Tool()(**{"prompt": params["prompt"], "image": x})
\* toolret is what the downstream tool answers
CallClosure(closure, x, toolret) ==
    LET prompt == Subscript(closure.params, "prompt")
        made == [ev |-> "construct", cls |-> closure.tool]
    IN  IF prompt.kind = "raise" THEN Result(<<made>>, prompt)
        ELSE Result(<<made,
                      [ev |-> "tool", tool |-> closure.tool,
                       kwargs |-> ("prompt" :> prompt.value) @@ ("image" :> x)]>>,
                    Return(toolret))

(***************************************************************************)
(* get_lmm                                                                 *)
(***************************************************************************)
\* the client constructed, or the ValueError; the message is kept in pieces
Construct(cls) == [ev |-> "construct", cls |-> cls]

\* faulty variant: an unknown name falls back to the LLaVA client
get_lmm_fallback(name) ==
    IF name = "openai"
    THEN Result(<<Construct("OpenAILMM")>>, Return(OpenAILMM(name, DEFAULT_MAX_TOKENS, <<>>)))
    ELSE Result(<<Construct("LLaVALMM")>>, Return(LLaVALMM(name)))

\* faulty variant: the OpenAI client is constructed with its default model name
get_lmm_default_model(name) ==
    IF name = "openai"
    THEN Result(<<Construct("OpenAILMM")>>,
                Return(OpenAILMM(DEFAULT_MODEL_NAME, DEFAULT_MAX_TOKENS, <<>>)))
    ELSE IF name = "llava"
         THEN Result(<<Construct("LLaVALMM")>>, Return(LLaVALMM(name)))
         ELSE Result(<<>>,
                     Raise("ValueError",
                           <<"Unknown LMM: ", name, ", current support ",
                             "openai", ", ", "llava">>))

get_lmm(name) ==
    IF name = "openai"
    THEN Result(<<Construct("OpenAILMM")>>, Return(OpenAILMM(name, DEFAULT_MAX_TOKENS, <<>>)))
    ELSE IF name = "llava"
         THEN Result(<<Construct("LLaVALMM")>>, Return(LLaVALMM(name)))
         ELSE Result(<<>>,
                     Raise("ValueError",
                           <<"Unknown LMM: ", name, ", current support ",
                             "openai", ", ", "llava">>))

(***************************************************************************)
(* Inputs.                                                                 *)
(***************************************************************************)
BackendNames == {"openai", "llava", "OpenAI", "gpt-4-vision-preview", ""}

Prompts == {"what is this?", ""}

Questions == {"is there a cat?"}

Roles == {"user", "assistant"}

Messages == [role : Roles, content : {"hello"}]

Chats == UNION {[1..n -> Messages] : n \in 0..MaxChat}

Inputs == {[t |-> "str", s |-> p] : p \in Prompts} \cup
          {[t |-> "list", l |-> c] : c \in Chats}

\* what the chat-completion API answers to generate and chat
Contents == {T_cat, T_prose}

ToolReturns == {"tool result"}

NoClient == [cls |-> "None"]

\* the endpoint is not contacted, so it answers nothing
NoResponse == <<>>

(***************************************************************************)
(* The state machine.                                                      *)
(***************************************************************************)
Done(op, args, result) ==
    [op |-> op, args |-> args, events |-> result.events, outcome |-> result.outcome]

Init ==
    /\ lmm = NoClient
    /\ origin = [via |-> "none", name |-> ""]
    /\ closures = <<>>
    /\ last = [op |-> "none"]

\* lmm = get_lmm(name)
GetLmm(name) ==
    LET r == get_lmm(name)
    IN  /\ last' = Done("get_lmm", [name |-> name], r)
        /\ IF r.outcome.kind = "return"
           THEN /\ lmm' = r.outcome.value
                /\ origin' = [via |-> "get_lmm", name |-> name]
           ELSE UNCHANGED <<lmm, origin>>
        /\ UNCHANGED closures

\* lmm = OpenAILMM()
NewOpenAILMM ==
    /\ lmm' = OpenAILMM(DEFAULT_MODEL_NAME, DEFAULT_MAX_TOKENS, <<>>)
    /\ origin' = [via |-> "OpenAILMM", name |-> DEFAULT_MODEL_NAME]
    /\ last' = Done("OpenAILMM", [name |-> DEFAULT_MODEL_NAME],
                    Result(<<Construct("OpenAILMM")>>, Return(lmm')))
    /\ UNCHANGED closures

\* lmm(input, image)
Call(input, image) ==
    /\ \/ /\ lmm.cls = "LLaVALMM"
          /\ \E resp \in (IF input.t = "str" THEN LlavaResponses ELSE {NoResponse}) :
                last' = Done("__call__", [input |-> input, image |-> image, env |-> resp],
                             LLaVALMM_call(lmm, input, image, resp))
       \/ /\ lmm.cls = "OpenAILMM"
          /\ \E content \in Contents :
                last' = Done("__call__", [input |-> input, image |-> image, env |-> content],
                             OpenAILMM_call(lmm, input, image, content))
    /\ UNCHANGED <<lmm, origin, closures>>

\* lmm.generate(prompt, image)
Generate(prompt, image) ==
    /\ \/ /\ lmm.cls = "LLaVALMM"
          /\ \E resp \in LlavaResponses :
                last' = Done("generate", [prompt |-> prompt, image |-> image, env |-> resp],
                             LLaVALMM_generate(lmm, prompt, image, resp))
       \/ /\ lmm.cls = "OpenAILMM"
          /\ \E content \in Contents :
                last' = Done("generate", [prompt |-> prompt, image |-> image, env |-> content],
                             OpenAILMM_generate(lmm, prompt, image, content))
    /\ UNCHANGED <<lmm, origin, closures>>

\* lmm.chat(chat, image)
Chat(chat, image) ==
    /\ \/ /\ lmm.cls = "LLaVALMM"
          /\ last' = Done("chat", [chat |-> chat, image |-> image],
                          LLaVALMM_chat(lmm, chat, image))
       \/ /\ lmm.cls = "OpenAILMM"
          /\ \E content \in Contents :
                last' = Done("chat", [chat |-> chat, image |-> image, env |-> content],
                             OpenAILMM_chat(lmm, chat, image, content))
    /\ UNCHANGED <<lmm, origin, closures>>

\* f = lmm.generate_classifier(question) ; keep: the caller keeps the closure
Factory(op, result, question, content, keep) ==
    /\ lmm.cls = "OpenAILMM"
    /\ last' = Done(op, [question |-> question, env |-> content], result)
    /\ IF keep /\ result.outcome.kind = "return"
       THEN /\ Len(closures) < MaxClosures
            /\ closures' = Append(closures, result.outcome.value)
       ELSE UNCHANGED closures
    /\ UNCHANGED <<lmm, origin>>

GenerateClassifier(question, content, keep) ==
    Factory("generate_classifier", generate_classifier(lmm, question, content),
            question, content, keep)

GenerateDetector(question, content, keep) ==
    Factory("generate_detector", generate_detector(lmm, question, content),
            question, content, keep)

GenerateSegmentor(question, content, keep) ==
    Factory("generate_segmentor", generate_segmentor(lmm, question, content),
            question, content, keep)

\* closures[k](x)
InvokeClosure(k, x, toolret) ==
    /\ last' = Done("closure", [k |-> k, closure |-> closures[k], x |-> x, env |-> toolret],
                    CallClosure(closures[k], x, toolret))
    /\ UNCHANGED <<lmm, origin, closures>>

Construction ==
    \/ \E name \in BackendNames : GetLmm(name)
    \/ NewOpenAILMM

Next ==
    \/ Construction
    \/ \E input \in Inputs, image \in Images : Call(input, image)
    \/ \E prompt \in Prompts, image \in Images : Generate(prompt, image)
    \/ \E chat \in Chats, image \in Images : Chat(chat, image)
    \/ \E q \in Questions, content \in ResponseTexts : GenerateClassifier(q, content, FALSE)
    \/ \E q \in Questions, content \in ResponseTexts : GenerateDetector(q, content, FALSE)
    \/ \E q \in Questions, content \in ResponseTexts : GenerateSegmentor(q, content, FALSE)

Spec == Init /\ [][Next]_vars

NextTools ==
    \/ Construction
    \/ \E q \in Questions, content \in ResponseTexts : GenerateClassifier(q, content, TRUE)
    \/ \E q \in Questions, content \in ResponseTexts : GenerateDetector(q, content, TRUE)
    \/ \E q \in Questions, content \in ResponseTexts : GenerateSegmentor(q, content, TRUE)
    \/ \E k \in 1..Len(closures), x \in Images, toolret \in ToolReturns :
          InvokeClosure(k, x, toolret)

SpecTools == Init /\ [][NextTools]_vars
(***************************************************************************)
(* Properties.                                                             *)
(***************************************************************************)
OfKind(events, kind) == SelectSeq(events, LAMBDA e : e.ev = kind)

\* the network requests among the events: chat-completion calls and POSTs
Network(events) == SelectSeq(events, LAMBDA e : e.ev \in {"request", "post"})

LastResult == Result(last.events, last.outcome)

\* C1: for both clients, the unified call with a string input has exactly the
\* events (network requests included) and the outcome (value returned or error
\* raised) of generate on the same arguments, and with a message list those of
\* chat on the same arguments.
C1_CallDelegates ==
    last.op = "__call__" =>
        LET a == last.args
        IN  IF lmm.cls = "LLaVALMM"
            THEN IF a.input.t = "str"
                 THEN LastResult = LLaVALMM_generate(lmm, a.input.s, a.image, a.env)
                 ELSE LastResult = LLaVALMM_chat(lmm, a.input.l, a.image)
            ELSE IF a.input.t = "str"
                 THEN LastResult = OpenAILMM_generate(lmm, a.input.s, a.image, a.env)
                 ELSE LastResult = OpenAILMM_chat(lmm, a.input.l, a.image, a.env)

\* a unified call on the OpenAI client with a prompt and a readable image
\* that sent one request
C1_Witness ==
    /\ last.op = "__call__"
    /\ lmm.cls = "OpenAILMM"
    /\ last.args.input.t = "str"
    /\ Truthy(last.args.image)
    /\ Len(Network(last.events)) = 1
    /\ last.outcome.kind = "return"

\* the hosted endpoint answered: generate of LLaVALMM got as far as the POST
LlavaAnswered ==
    /\ last.op = "generate"
    /\ lmm.cls = "LLaVALMM"
    /\ Len(OfKind(last.events, "post")) = 1

StatusOk(r) == "statusCode" \in DOMAIN r /\ r["statusCode"] = 200

ReturnsData(r) ==
    /\ last.outcome.kind = "return"
    /\ "data" \in DOMAIN r
    /\ last.outcome.value = r["data"]

\* RequestError carrying the body, the body logged as the last event before it
RequestErrorLogged(r) ==
    /\ last.outcome.kind = "raise"
    /\ last.outcome.exc = "ValueError"
    /\ last.outcome.msg = <<"Request failed: ", r>>
    /\ last.events[Len(last.events)].ev = "log"
    /\ last.events[Len(last.events)].msg = <<"Request failed: ", r>>

\* C2 as stated: for every JSON response, generate returns the data field if
\* and only if statusCode is present and 200; otherwise it raises the
\* RequestError carrying the body, logged before the raise.
C2_Original ==
    LlavaAnswered =>
        LET r == last.args.env
        IN  /\ ReturnsData(r) <=> StatusOk(r)
            /\ ~StatusOk(r) => RequestErrorLogged(r)

\* C2 amended: generate returns the data field if and only if statusCode is
\* 200 and the response has a data field; with statusCode 200 and no data
\* field it raises KeyError and logs nothing; with statusCode missing or not
\* 200 it raises the RequestError carrying the body, logged before the raise.
C2_StatusCode ==
    LlavaAnswered =>
        LET r == last.args.env
        IN  /\ ReturnsData(r) <=> (StatusOk(r) /\ "data" \in DOMAIN r)
            /\ (StatusOk(r) /\ "data" \notin DOMAIN r) =>
                  /\ last.outcome.kind = "raise"
                  /\ last.outcome.exc = "KeyError"
                  /\ Len(OfKind(last.events, "log")) = 0
            /\ ~StatusOk(r) => RequestErrorLogged(r)

\* the endpoint answered without a statusCode field and generate raised
C2_Witness ==
    /\ LlavaAnswered
    /\ "statusCode" \notin DOMAIN last.args.env
    /\ "data" \in DOMAIN last.args.env
    /\ last.outcome.kind = "raise"
FactoryOps == {"generate_classifier", "generate_detector", "generate_segmentor"}

\* the downstream tool of each factory
ToolOf(op) ==
    CASE op = "generate_classifier" -> "CLIP"
      [] op = "generate_detector" -> "GroundingDINO"
      [] op = "generate_segmentor" -> "GroundingSAM"

NotJson(text) == json_loads(text).kind = "raise"

HasKey(value, key) == value.t = "obj" /\ key \in DOMAIN value.m

NoParameters(text) ==
    /\ ~NotJson(text)
    /\ ~HasKey(json_loads(text).value, "Parameters")

NoPrompt(text) ==
    /\ ~NotJson(text)
    /\ HasKey(json_loads(text).value, "Parameters")
    /\ ~HasKey(json_loads(text).value.m["Parameters"], "prompt")

HasPrompt(text) ==
    /\ ~NotJson(text)
    /\ HasKey(json_loads(text).value, "Parameters")
    /\ HasKey(json_loads(text).value.m["Parameters"], "prompt")

PromptOf(text) == json_loads(text).value.m["Parameters"].m["prompt"]

\* C3 as stated: when the response text is not valid JSON, or has no
\* Parameters key, or its Parameters has no prompt entry, the factory raises
\* ValueError (ResponseParseError), has logged the raw response text, and
\* returns no closure.
C3_Original ==
    (/\ last.op \in FactoryOps
     /\ \/ NotJson(last.args.env)
        \/ NoParameters(last.args.env)
        \/ NoPrompt(last.args.env))
    => /\ last.outcome.kind = "raise"
       /\ last.outcome.exc = "ValueError"
       /\ \E i \in 1..Len(last.events) :
             /\ last.events[i].ev = "log"
             /\ last.events[i].msg = <<"Failed to decode response: ", last.args.env>>

\* the part of C3 the code does meet: a text that is not valid JSON
C3_NotJsonOnly ==
    (last.op \in FactoryOps /\ NotJson(last.args.env))
    => /\ last.outcome.kind = "raise"
       /\ last.outcome.exc = "ValueError"
       /\ \E i \in 1..Len(last.events) :
             /\ last.events[i].ev = "log"
             /\ last.events[i].msg = <<"Failed to decode response: ", last.args.env>>

\* C4 (creation): for a response whose Parameters object holds a prompt p,
\* the factory sends exactly one request and returns a closure bound to its
\* own tool and to p, which the caller then holds.
C4_Creation ==
    (last.op \in FactoryOps /\ HasPrompt(last.args.env))
    => /\ last.outcome.kind = "return"
       /\ last.outcome.value.tool = ToolOf(last.op)
       /\ HasKey(last.outcome.value.params, "prompt")
       /\ last.outcome.value.params.m["prompt"] = PromptOf(last.args.env)
       /\ Len(Network(last.events)) = 1
       /\ closures[Len(closures)] = last.outcome.value

\* C4 (invocation): calling a closure whose parameters hold a prompt p invokes
\* the closure's tool once, with exactly prompt=p and image=x, and sends no
\* request.
C4_Invocation ==
    (last.op = "closure" /\ HasKey(last.args.closure.params, "prompt"))
    => LET calls == OfKind(last.events, "tool")
       IN  /\ last.args.closure = closures[last.args.k]
           /\ Len(calls) = 1
           /\ calls[1].tool = last.args.closure.tool
           /\ DOMAIN calls[1].kwargs = {"prompt", "image"}
           /\ calls[1].kwargs["prompt"] = last.args.closure.params.m["prompt"]
           /\ calls[1].kwargs["image"] = last.args.x
           /\ Len(Network(last.events)) = 0

\* C4 (same p on every invocation): a closure, once created, is never altered
C4_Stable ==
    \A k \in 1..Len(closures) : Len(closures') >= k /\ closures'[k] = closures[k]

\* C4: each factory, given a response whose Parameters object holds a prompt
\* p, makes one request and returns a closure of its own tool; every call of
\* the closure invokes that tool with exactly prompt=p and image=img and makes
\* no request; the closure and its p never change.
C4_Closure == [](C4_Creation /\ C4_Invocation) /\ [][C4_Stable]_vars

\* a detector closure made from a response with prompt and other parameters
\* was called on an image and invoked its tool
C4_Witness ==
    /\ last.op = "closure"
    /\ last.args.closure.tool = "GroundingDINO"
    /\ HasKey(last.args.closure.params, "box_threshold")
    /\ Truthy(last.args.x)
    /\ Len(OfKind(last.events, "tool")) = 1
(***************************************************************************)
(* Data URIs as the remote API receives them.                              *)
(***************************************************************************)
\* position of the first occurrence of c in s, 0 when there is none
Find(s, c) ==
    IF \E i \in 1..Len(s) : s[i] = c
    THEN CHOOSE i \in 1..Len(s) : s[i] = c /\ \A j \in 1..(i - 1) : s[j] # c
    ELSE 0

\* the media tag of a data URI: what stands between "data:image/" and ";"
UrlTag(url) ==
    LET rest == SubSeq(url, Len(Str_data_image) + 1, Len(url))
    IN  SubSeq(rest, 1, Find(rest, ";") - 1)

IsDataUrl(url, tag, encoded) ==
    url = Str_data_image \o tag \o Str_base64 \o encoded

SupportedSuffixes == {Str_dot_jpg, Str_dot_jpeg, Str_dot_png}

\* the tag the claim prescribes for a supported suffix
NormalTag(suffix) ==
    IF Lower(suffix) \in {Str_dot_jpg, Str_dot_jpeg} THEN Str_jpg ELSE Str_png

OpenAIChat == last.op = "chat" /\ lmm.cls = "OpenAILMM"

OpenAIGenerate == last.op = "generate" /\ lmm.cls = "OpenAILMM"

\* the image_url blocks of a message
ImageBlocks(message) == SelectSeq(message.content, LAMBDA b : b.type = "image_url")

TextBlocks(message) == SelectSeq(message.content, LAMBDA b : b.type = "text")

\* C5: when chat sends a request for an image whose suffix is .jpg, .jpeg or
\* .png in any letter case, the data URI is data:image/{tag};base64,{encoded}
\* with tag jpg for .jpg and .jpeg and png for .png; the tag holds no dot and
\* no upper-case letter.
C5_ChatTag ==
    (/\ OpenAIChat
     /\ Truthy(last.args.image)
     /\ Lower(PathSuffix(last.args.image.path)) \in SupportedSuffixes
     /\ Len(OfKind(last.events, "request")) > 0)
    => LET path == last.args.image.path
           request == OfKind(last.events, "request")[1]
           blocks == ImageBlocks(request.messages[1])
           url == blocks[1].image_url.url
       IN  /\ Len(blocks) = 1
           /\ IsDataUrl(url, NormalTag(PathSuffix(path)), B64Encode(Files[path]))
           /\ UrlTag(url) \in {Str_jpg, Str_png}
           /\ \A i \in 1..Len(UrlTag(url)) :
                 UrlTag(url)[i] # "." /\ LowerChar(UrlTag(url)[i]) = UrlTag(url)[i]

\* chat sent a request for an image with a mixed-case .Jpeg suffix
C5_Witness ==
    /\ OpenAIChat
    /\ last.args.image = Some(P_Jpeg)
    /\ Len(OfKind(last.events, "request")) = 1
    /\ last.outcome.kind = "return"

\* C6: chat with an image whose suffix is outside .jpg, .jpeg, .png (in any
\* letter case, the empty suffix included) raises the ValueError for an
\* unsupported image extension and sends no request.
C6_ChatRejects ==
    (/\ OpenAIChat
     /\ Truthy(last.args.image)
     /\ Lower(PathSuffix(last.args.image.path)) \notin SupportedSuffixes)
    => /\ last.outcome.kind = "raise"
       /\ last.outcome.exc = "ValueError"
       /\ last.outcome.msg =
             <<"Unsupported image extension: ", PathSuffix(last.args.image.path)>>
       /\ Len(Network(last.events)) = 0

\* chat was called with a readable image that has no extension, and a
\* non-empty message list
C6_Witness ==
    /\ OpenAIChat
    /\ last.args.image = Some(P_noext)
    /\ Len(last.args.chat) > 0
    /\ last.outcome.kind = "raise"

SupportedBackends == {"openai", "llava"}

\* C7: get_lmm returns an OpenAILMM for exactly "openai", a LLaVALMM for
\* exactly "llava", and for every other name raises a ValueError whose
\* message names openai and llava, constructing no client.
C7_GetLmm ==
    last.op = "get_lmm" =>
        LET name == last.args.name
        IN  /\ name = "openai" =>
                 last.outcome.kind = "return" /\ last.outcome.value.cls = "OpenAILMM"
            /\ name = "llava" =>
                 last.outcome.kind = "return" /\ last.outcome.value.cls = "LLaVALMM"
            /\ name \notin SupportedBackends =>
                 /\ last.outcome.kind = "raise"
                 /\ last.outcome.exc = "ValueError"
                 /\ \A b \in SupportedBackends :
                       \E i \in 1..Len(last.outcome.msg) : last.outcome.msg[i] = b
                 /\ Len(OfKind(last.events, "construct")) = 0

\* get_lmm was called with a name that differs from "openai" only in case
C7_Witness ==
    /\ last.op = "get_lmm"
    /\ last.args.name = "OpenAI"
    /\ last.outcome.kind = "raise"

\* C8: for a non-empty message list, the messages chat sends are as many as
\* the input's, with the same roles in the same order, each content starting
\* with the one text block of that message; with an image, one image_url
\* block is appended to the first message only; without, there is none.
C8_ChatMessages ==
    (/\ OpenAIChat
     /\ Len(last.args.chat) > 0
     /\ Len(OfKind(last.events, "request")) > 0)
    => LET chat == last.args.chat
           sent == OfKind(last.events, "request")[1].messages
       IN  /\ Len(sent) = Len(chat)
           /\ \A i \in 1..Len(chat) :
                 /\ sent[i].role = chat[i].role
                 /\ sent[i].content[1] = [type |-> "text", text |-> chat[i].content]
                 /\ Len(TextBlocks(sent[i])) = 1
                 /\ Len(ImageBlocks(sent[i])) =
                       (IF i = 1 /\ Truthy(last.args.image) THEN 1 ELSE 0)
                 /\ Len(sent[i].content) =
                       (IF i = 1 /\ Truthy(last.args.image) THEN 2 ELSE 1)

\* chat sent two messages of different roles together with an image
C8_Witness ==
    /\ OpenAIChat
    /\ Len(last.args.chat) = 2
    /\ last.args.chat[1].role # last.args.chat[2].role
    /\ Truthy(last.args.image)
    /\ Len(OfKind(last.events, "request")) = 1

NotUnsupportedFormat ==
    ~(/\ last.outcome.kind = "raise"
      /\ last.outcome.exc = "ValueError")

\* the request generate sent carries the raw suffix of the path as its tag
SentRawSuffix(path) ==
    /\ Len(OfKind(last.events, "request")) = 1
    /\ LET blocks == ImageBlocks(OfKind(last.events, "request")[1].messages[1])
       IN  /\ Len(blocks) = 1
           /\ IsDataUrl(blocks[1].image_url.url, PathSuffix(path), B64Encode(Files[path]))

\* the tag of the data URI in the one request of the latest operation
SentTag ==
    UrlTag(ImageBlocks(OfKind(last.events, "request")[1].messages[1])[1].image_url.url)

\* C9 as stated: for every image path, whatever its extension, generate never
\* raises the unsupported extension error, sends the request, and the data
\* URI's tag is the raw suffix of the path.
C9_Original ==
    (OpenAIGenerate /\ Truthy(last.args.image))
    => /\ NotUnsupportedFormat
       /\ Len(OfKind(last.events, "request")) = 1
       /\ SentTag = PathSuffix(last.args.image.path)

\* C9 amended: for every image path, generate never raises the unsupported
\* extension error; when the path names a readable file it sends the request
\* and the data URI's tag is the raw suffix of the path, leading dot and
\* letter case included; when the file cannot be read the I/O error is
\* raised and no request is sent.
C9_GenerateRawSuffix ==
    (OpenAIGenerate /\ Truthy(last.args.image))
    => LET path == last.args.image.path
       IN  /\ NotUnsupportedFormat
           /\ path \in DOMAIN Files =>
                 /\ last.outcome.kind = "return"
                 /\ SentRawSuffix(path)
           /\ path \notin DOMAIN Files =>
                 /\ last.outcome.kind = "raise"
                 /\ last.outcome.exc = "FileNotFoundError"
                 /\ Len(Network(last.events)) = 0

\* generate sent a request for a.JPG with the tag .JPG
C9_Witness ==
    /\ OpenAIGenerate
    /\ last.args.image = Some(P_JPG)
    /\ Len(OfKind(last.events, "request")) = 1
    /\ SentTag = <<".","J","P","G">>

FromGetLmmOpenAI == origin = [via |-> "get_lmm", name |-> "openai"]

ConstructionOps == {"get_lmm", "OpenAILMM"}

\* C10 (state): the client get_lmm("openai") returned has model name
\* "openai", not the default model identifier, and every request of the
\* latest operation on it carries model "openai".
C10_ModelName ==
    FromGetLmmOpenAI =>
        /\ lmm.cls = "OpenAILMM"
        /\ lmm.model_name = "openai"
        /\ lmm.model_name # DEFAULT_MODEL_NAME
        /\ \A i \in 1..Len(last.events) :
              last.events[i].ev = "request" => last.events[i].model = "openai"

\* C10 (step): no operation other than a construction alters the client
C10_Unchanged == lmm' # lmm => last'.op \in ConstructionOps

\* C10: the client returned by get_lmm("openai") has model name "openai"
\* rather than the default model identifier, the name never changes, and
\* every request it sends through generate, chat, the unified call or a
\* tool-selector factory carries model "openai".
C10_FactoryModelName == []C10_ModelName /\ [][C10_Unchanged]_vars

\* a tool-selector factory of the client from get_lmm("openai") sent a request
C10_Witness ==
    /\ FromGetLmmOpenAI
    /\ last.op = "generate_segmentor"
    /\ Len(OfKind(last.events, "request")) = 1
====
